---------------------------- MODULE Spec2Model ----------------------------
(***************************************************************************)
(* TOC/TOD calculator: unit conversion, flight profile calculation,        *)
(* airport directory and the form controller of src/src/App.tsx.           *)
(*                                                                         *)
(* JavaScript numbers are modelled as decimal floating point values with   *)
(* an eight digit significand, with NaN, +Infinity and -Infinity, and the  *)
(* overflow threshold of an IEEE double (1.7976931e308).  Signed zero is   *)
(* not modelled.                                                           *)
(***************************************************************************)
EXTENDS Integers, Sequences, FiniteSets, TLC

(***************************************************************************)
(* The number type.                                                        *)
(*                                                                         *)
(* An operator that uses an operand more than once binds it first, as the  *)
(* variable of a one-element set, so that the operand is computed once.    *)
(***************************************************************************)
NaN == [k |-> "nan", m |-> 0, e |-> 0]

PInf == [k |-> "pinf", m |-> 0, e |-> 0]

NInf == [k |-> "ninf", m |-> 0, e |-> 0]

Zero == [k |-> "fin", m |-> 0, e |-> 0]

RECURSIVE Pow10(_)
Pow10(n) == IF n <= 0 THEN 1 ELSE 10 * Pow10(n - 1)

Abs(i) == IF i < 0 THEN 0 - i ELSE i

Sign(i) == IF i < 0 THEN 0 - 1 ELSE 1

RECURSIVE NDigits(_)
NDigits(a) == IF a < 10 THEN 1 ELSE 1 + NDigits(a \div 10)

RECURSIVE Strip(_, _)
Strip(a, e) == IF a % 10 = 0 THEN Strip(a \div 10, e + 1) ELSE <<a, e>>

\* The finite value s * a * 10^e (a > 0 with eight digits at most), or what
\* it overflows or underflows to: an infinity beyond 1.7976931e308, zero
\* below 1e-324.
RangeOf(s, a, e, nd) ==
    IF e + nd - 1 > 308 \/ (e + nd - 1 = 308 /\ a * Pow10(8 - nd) > 17976931)
    THEN (IF s < 0 THEN NInf ELSE PInf)
    ELSE IF e + nd - 1 < 0 - 324 THEN Zero
    ELSE [k |-> "fin", m |-> s * a, e |-> e]

Range(s, t) == CHOOSE r \in {RangeOf(s, t[1], t[2], nd) : nd \in {NDigits(t[1])}} : TRUE

\* The canonical number of value m * 10^e, for an integer m of ten digits at
\* most: the significand rounded to eight digits, trailing zeros removed.
NormOf(m, e) ==
    IF m = 0 THEN Zero
    ELSE CHOOSE r \in
            {Range(Sign(m), t) :
                t \in {IF Abs(m) >= 1000000000
                       THEN Strip((Abs(m) + 50) \div 100, e + 2)
                       ELSE IF Abs(m) >= 100000000
                       THEN Strip((Abs(m) + 5) \div 10, e + 1)
                       ELSE Strip(Abs(m), e)}} : TRUE

Norm(m, e) == CHOOSE r \in {NormOf(a, b) : a \in {m}, b \in {e}} : TRUE

\* A number literal: i * 10^e.
N(i, e) == Norm(i, e)

IsNaN(x) == x.k = "nan"

IsFinite(x) == x.k = "fin"

IsZero(x) == x.k = "fin" /\ x.m = 0

IsNeg(x) == x.k = "ninf" \/ (x.k = "fin" /\ x.m < 0)

NegOf(x) ==
    CASE x.k = "nan" -> NaN
      [] x.k = "pinf" -> NInf
      [] x.k = "ninf" -> PInf
      [] OTHER -> [k |-> "fin", m |-> 0 - x.m, e |-> x.e]

\* -x
Neg(x) == CHOOSE r \in {NegOf(a) : a \in {x}} : TRUE

\* The sixteen digit product a * b of two eight digit significands, as
\* <<high eight digits, low eight digits>>.
HiLo(a, b) ==
    LET ah == a \div 10000
        al == a % 10000
        bh == b \div 10000
        bl == b % 10000
        cross == ah * bl + al * bh
        t == (cross % 10000) * 10000 + al * bl
    IN  <<ah * bh + cross \div 10000 + t \div 100000000, t % 100000000>>

MulDigits(s, hi, lo, e, d) ==
    IF hi = 0 THEN Norm(s * lo, e)
    ELSE Norm(s * (hi * Pow10(9 - d) + lo \div Pow10(d - 1)), e + d - 1)

MulFin(x, y) ==
    CHOOSE r \in
        {MulDigits(Sign(x.m) * Sign(y.m), p[1], p[2], x.e + y.e, NDigits(p[1])) :
            p \in {HiLo(Abs(x.m), Abs(y.m))}} : TRUE

MulOf(x, y) ==
    IF IsNaN(x) \/ IsNaN(y) THEN NaN
    ELSE IF IsFinite(x) /\ IsFinite(y) THEN
        (IF IsZero(x) \/ IsZero(y) THEN Zero ELSE MulFin(x, y))
    ELSE IF IsZero(x) \/ IsZero(y) THEN NaN
    ELSE IF IsNeg(x) = IsNeg(y) THEN PInf ELSE NInf

\* x * y
Mul(x, y) == CHOOSE r \in {MulOf(a, b) : a \in {x}, b \in {y}} : TRUE

\* Long division: the quotient digits of r / b appended to q, to nine digits.
RECURSIVE DivDigits(_, _, _, _)
DivDigits(q, r, b, e) ==
    IF r = 0 \/ q >= 100000000 THEN <<q, e>>
    ELSE CHOOSE qe \in
            {DivDigits(q * 10 + r10 \div b, r10 % b, b, e - 1) :
                r10 \in {r * 10}} : TRUE

DivFin(x, y) ==
    CHOOSE r \in
        {Norm(Sign(x.m) * Sign(y.m) * qe[1], qe[2]) :
            qe \in {DivDigits(Abs(x.m) \div Abs(y.m), Abs(x.m) % Abs(y.m),
                              Abs(y.m), x.e - y.e)}} : TRUE

DivOf(x, y) ==
    IF IsNaN(x) \/ IsNaN(y) THEN NaN
    ELSE IF IsFinite(x) /\ IsFinite(y) THEN
        (IF IsZero(y)
         THEN (IF IsZero(x) THEN NaN ELSE IF IsNeg(x) THEN NInf ELSE PInf)
         ELSE IF IsZero(x) THEN Zero ELSE DivFin(x, y))
    ELSE IF IsFinite(y) THEN (IF IsNeg(x) = IsNeg(y) THEN PInf ELSE NInf)
    ELSE IF IsFinite(x) THEN Zero
    ELSE NaN

\* x / y
Div(x, y) == CHOOSE r \in {DivOf(a, b) : a \in {x}, b \in {y}} : TRUE

\* The order of magnitude of a finite non-zero x
SciExp(x) == x.e + NDigits(Abs(x.m)) - 1

\* mb * 10^eb + y, with y shifted to the exponent eb
AddAligned(mb, eb, y) ==
    Norm(mb + (IF y.e - eb >= 0 THEN y.m * Pow10(y.e - eb)
               ELSE IF y.e - eb <= 0 - 9 THEN 0
               ELSE Sign(y.m) * (Abs(y.m) \div Pow10(eb - y.e))),
         eb)

\* x + y for finite non-zero x, y, where x has the larger order of
\* magnitude: x is written with nine digits and y aligned to it.
AddOrdered(x, y) ==
    CHOOSE r \in
        {AddAligned(x.m * Pow10(up), x.e - up, y) :
            up \in {9 - NDigits(Abs(x.m))}} : TRUE

AddOf(x, y) ==
    IF IsNaN(x) \/ IsNaN(y) THEN NaN
    ELSE IF IsFinite(x) /\ IsFinite(y) THEN
        (IF IsZero(x) THEN y
         ELSE IF IsZero(y) THEN x
         ELSE IF SciExp(x) >= SciExp(y) THEN AddOrdered(x, y)
         ELSE AddOrdered(y, x))
    ELSE IF IsFinite(x) THEN y
    ELSE IF IsFinite(y) THEN x
    ELSE IF x = y THEN x ELSE NaN

\* x + y
Add(x, y) == CHOOSE r \in {AddOf(a, b) : a \in {x}, b \in {y}} : TRUE

\* x - y
Sub(x, y) == Add(x, Neg(y))

LessOf(x, y) ==
    IF IsNaN(x) \/ IsNaN(y) \/ x = y THEN FALSE ELSE IsNeg(Sub(x, y))

\* x < y (false when either is NaN)
Less(x, y) == \E a \in {x}, b \in {y} : LessOf(a, b)

RoundOf(x, p, a) ==
    IF x.m > 0
    THEN Norm(a \div p + (IF 2 * (a % p) >= p THEN 1 ELSE 0), 0)
    ELSE Norm(0 - (a \div p + (IF 2 * (a % p) > p THEN 1 ELSE 0)), 0)

MathRoundOf(x) ==
    IF ~IsFinite(x) \/ x.e >= 0 THEN x
    ELSE IF x.e <= 0 - 9 THEN Zero
    ELSE CHOOSE r \in {RoundOf(x, p, Abs(x.m)) : p \in {Pow10(0 - x.e)}} : TRUE

\* Math.round: the nearest integer, halves rounded towards +Infinity.
MathRound(x) == CHOOSE r \in {MathRoundOf(a) : a \in {x}} : TRUE

\* Math.PI
MathPI == N(31415927, 0 - 7)

\* The sum of a power series, term by term: NextTerm gives term n from
\* term n - 1; the sum ends when a term no longer changes it.
RECURSIVE SinSeries(_, _, _, _)
RECURSIVE SinSum(_, _, _, _)
SinSum(sum, t, x2, n) ==
    CHOOSE r \in
        {IF s = sum \/ n > 16 THEN s ELSE SinSeries(s, t, x2, n + 1) :
            s \in {Add(sum, t)}} : TRUE

SinSeries(sum, term, x2, n) ==
    CHOOSE r \in
        {SinSum(sum, t, x2, n) :
            t \in {Neg(Div(Mul(term, x2), N((2 * n) * (2 * n + 1), 0)))}} : TRUE

MathSinOf(x) ==
    IF ~IsFinite(x) THEN NaN
    ELSE IF IsZero(x) THEN Zero
    ELSE CHOOSE r \in {SinSeries(x, x, x2, 1) : x2 \in {Mul(x, x)}} : TRUE

\* Math.sin, by its Taylor series
MathSin(x) == CHOOSE r \in {MathSinOf(a) : a \in {x}} : TRUE

RECURSIVE CosSeries(_, _, _, _)
RECURSIVE CosSum(_, _, _, _)
CosSum(sum, t, x2, n) ==
    CHOOSE r \in
        {IF s = sum \/ n > 16 THEN s ELSE CosSeries(s, t, x2, n + 1) :
            s \in {Add(sum, t)}} : TRUE

CosSeries(sum, term, x2, n) ==
    CHOOSE r \in
        {CosSum(sum, t, x2, n) :
            t \in {Neg(Div(Mul(term, x2), N((2 * n - 1) * (2 * n), 0)))}} : TRUE

MathCosOf(x) ==
    IF ~IsFinite(x) THEN NaN
    ELSE IF IsZero(x) THEN N(1, 0)
    ELSE CHOOSE r \in {CosSeries(N(1, 0), N(1, 0), x2, 1) : x2 \in {Mul(x, x)}} : TRUE

\* Math.cos, by its Taylor series
MathCos(x) == CHOOSE r \in {MathCosOf(a) : a \in {x}} : TRUE

RECURSIVE Newton(_, _, _)
Newton(x, g, n) ==
    CHOOSE r \in
        {IF h = g \/ n > 20 THEN h ELSE Newton(x, h, n + 1) :
            h \in {Div(Add(g, Div(x, g)), N(2, 0))}} : TRUE

MathSqrtOf(x) ==
    IF IsNaN(x) \/ IsNeg(x) THEN NaN
    ELSE IF ~IsFinite(x) \/ IsZero(x) THEN x
    ELSE CHOOSE r \in {Newton(x, g, 0) : g \in {N(1, SciExp(x) \div 2)}} : TRUE

\* Math.sqrt, by Newton's iteration
MathSqrt(x) == CHOOSE r \in {MathSqrtOf(a) : a \in {x}} : TRUE

RECURSIVE AsinSeries(_, _, _, _)
RECURSIVE AsinSum(_, _, _, _)
AsinSum(sum, t, x2, n) ==
    CHOOSE r \in
        {IF s = sum \/ n > 40 THEN s ELSE AsinSeries(s, t, x2, n + 1) :
            s \in {Add(sum, t)}} : TRUE

AsinSeries(sum, term, x2, n) ==
    CHOOSE r \in
        {AsinSum(sum, t, x2, n) :
            t \in {Div(Mul(Mul(term, x2), N((2 * n + 1) * (2 * n + 1), 0)),
                       N((2 * n + 2) * (2 * n + 3), 0))}} : TRUE

\* asin of a finite a in (0, 1/2]
AsinSmall(a) == CHOOSE r \in {AsinSeries(a, a, a2, 0) : a2 \in {Mul(a, a)}} : TRUE

\* asin of a finite a > 0: pi/2 - 2 asin(sqrt((1 - a) / 2)) above 1/2
AsinPositive(a) ==
    IF Less(N(1, 0), a) THEN NaN
    ELSE IF Less(N(5, 0 - 1), a)
    THEN CHOOSE r \in
            {Sub(Div(MathPI, N(2, 0)),
                 Mul(N(2, 0), IF IsZero(y) THEN Zero ELSE AsinSmall(y))) :
                y \in {MathSqrt(Div(Sub(N(1, 0), a), N(2, 0)))}} : TRUE
    ELSE AsinSmall(a)

MathAsinOf(x) ==
    IF ~IsFinite(x) THEN NaN
    ELSE IF IsZero(x) THEN Zero
    ELSE IF IsNeg(x) THEN Neg(AsinPositive(Neg(x)))
    ELSE AsinPositive(x)

\* Math.asin, by its power series
MathAsin(x) == CHOOSE r \in {MathAsinOf(a) : a \in {x}} : TRUE

(***************************************************************************)
(* Strings are sequences of characters.                                    *)
(***************************************************************************)
Digits == <<"0", "1", "2", "3", "4", "5", "6", "7", "8", "9">>

IsDigit(c) == \E i \in 1..Len(Digits) : Digits[i] = c

DigitValue(c) == (CHOOSE i \in 1..Len(Digits) : Digits[i] = c) - 1

\* String.prototype.toUpperCase on one character
UpperChar(c) ==
    CASE c = "s" -> "S" [] c = "b" -> "B" [] c = "g" -> "G"
      [] c = "r" -> "R" [] c = "l" -> "L" [] c = "x" -> "X"
      [] OTHER -> c

\* String.prototype.toUpperCase
toUpperCase(str) == [i \in 1..Len(str) |-> UpperChar(str[i])]

RECURSIVE ParseDigits(_, _)
ParseDigits(str, acc) ==
    IF str = <<>> THEN acc
    ELSE ParseDigits(Tail(str), acc * 10 + DigitValue(Head(str)))

\* Number(string): the empty string is 0, a string of digits (eight at
\* most) its decimal value, any other string of the alphabet above NaN.
NumberOfString(str) ==
    IF str = <<>> THEN Zero
    ELSE IF \A i \in 1..Len(str) : IsDigit(str[i]) THEN N(ParseDigits(str, 0), 0)
    ELSE NaN

(***************************************************************************)
(* JavaScript values held by the form fields: null, a string or a number.  *)
(***************************************************************************)
Null == [t |-> "null", s |-> <<>>, n |-> Zero]

StrVal(str) == [t |-> "str", s |-> str, n |-> Zero]

NumVal(x) == [t |-> "num", s |-> <<>>, n |-> x]

ToNumberOf(v) ==
    CASE v.t = "null" -> Zero
      [] v.t = "str" -> NumberOfString(v.s)
      [] OTHER -> v.n

\* ToNumber, as applied by the arithmetic operators
ToNumber(v) == CHOOSE r \in {ToNumberOf(a) : a \in {v}} : TRUE

\* ToBoolean
Truthy(v) ==
    CASE v.t = "null" -> FALSE
      [] v.t = "str" -> v.s # <<>>
      [] OTHER -> ~IsNaN(v.n) /\ ~IsZero(v.n)

\* value ?? 0
OrZero(v) == IF v = Null THEN NumVal(Zero) ELSE v

(***************************************************************************)
(* Unit conversion                                                         *)
(***************************************************************************)
SpeedUnit == {"kt", "mph", "kmh"}

RateUnit == {"ftmin", "ms"}

toKnots(u) ==
    CASE u = "kt" -> N(1, 0)
      [] u = "mph" -> N(868976, 0 - 6)
      [] u = "kmh" -> N(539957, 0 - 6)

fromKnots(u) ==
    CASE u = "kt" -> N(1, 0)
      [] u = "mph" -> N(115078, 0 - 5)
      [] u = "kmh" -> N(1852, 0 - 3)

\* convertSpeed without the non-finite guard
convertSpeedUnguarded(value, from, to) ==
    Mul(Mul(value, toKnots(from)), fromKnots(to))

convertSpeed(value, from, to) ==
    CHOOSE r \in
        {IF IsFinite(result) THEN result ELSE Zero :
            result \in {Mul(Mul(value, toKnots(from)), fromKnots(to))}} : TRUE

convertRate(value, from, to) ==
    IF from = to THEN value
    ELSE CHOOSE r \in
            {IF IsFinite(result) THEN result ELSE Zero :
                result \in {IF from = "ftmin" /\ to = "ms"
                            THEN Mul(value, N(508, 0 - 5))
                            ELSE Mul(value, N(19685, 0 - 2))}} : TRUE

(***************************************************************************)
(* Airport directory                                                       *)
(***************************************************************************)
Undefined == [k |-> "undef", m |-> 0, e |-> 0]

\* ToNumber of a record field that may be missing
FieldNumber(x) == IF x = Undefined THEN NaN ELSE x

\* A record of the collection (BrazilianAirport); lat and lon are Undefined
\* in a record that carries no position.
AirportRecord(icao, name, elevation, lat, lon) ==
    [icao |-> icao, name |-> name, elevation |-> elevation,
     lat |-> lat, lon |-> lon]

NoRecord == AirportRecord(<<>>, "", Undefined, Undefined, Undefined)

\* The result of getAirportData: null, or the view of a record.
NullData ==
    [found |-> FALSE, feet |-> Undefined, meters |-> Undefined, name |-> "",
     coordinates |-> [present |-> FALSE, lat |-> Undefined, lon |-> Undefined]]

AirportData(airport) ==
    [found |-> TRUE,
     feet |-> airport.elevation,
     meters |-> MathRound(Mul(FieldNumber(airport.elevation), N(3048, 0 - 4))),
     name |-> airport.name,
     coordinates |-> [present |-> TRUE, lat |-> airport.lat, lon |-> airport.lon]]

\* airportMap: the records keyed by upper-case code, a later record of the
\* collection replacing an earlier one with the same key.
RECURSIVE airportMapFrom(_, _, _)
airportMapFrom(data, i, map) ==
    IF i > Len(data) THEN map
    ELSE LET key == toUpperCase(data[i].icao)
         IN  airportMapFrom(data, i + 1,
                 [k \in DOMAIN map \cup {key} |->
                     IF k = key THEN data[i] ELSE map[k]])

airportMap(data) == airportMapFrom(data, 1, <<>>)

\* getAirportData that looks the identifier up as given
getAirportDataCaseSensitive(data, icao) ==
    LET map == airportMap(data)
    IN  IF icao \in DOMAIN map THEN AirportData(map[icao]) ELSE NullData

\* getAirportData of services/airport.ts (precomputed index)
getAirportData(data, icao) ==
    LET map == airportMap(data)
        key == toUpperCase(icao)
    IN  IF key \in DOMAIN map THEN AirportData(map[key]) ELSE NullData

\* getAirportData of the linear-scan directory: Array.prototype.find
getAirportDataScan(data, icao) ==
    LET hits == {i \in 1..Len(data) :
                    toUpperCase(data[i].icao) = toUpperCase(icao)}
    IN  IF hits = {} THEN NullData
        ELSE AirportData(data[CHOOSE i \in hits : \A j \in hits : i <= j])

(***************************************************************************)
(* Flight profile calculator                                               *)
(***************************************************************************)
\* An Airport held by the form (airports.departure, airports.arrival);
\* NoAirport is the absent one.
NoAirport ==
    [set |-> FALSE, icao |-> <<>>, elevation |-> Undefined, name |-> "",
     coordinates |-> [present |-> FALSE, lat |-> Undefined, lon |-> Undefined]]

\* airports.<slot>?.elevation || 0
ElevationOrZero(airport) ==
    IF ~airport.set \/ airport.elevation = Undefined
       \/ IsNaN(airport.elevation) \/ IsZero(airport.elevation)
    THEN Zero ELSE airport.elevation

\* airports.departure?.coordinates && airports.arrival?.coordinates
BothCoordinates(airports) ==
    /\ airports.departure.set /\ airports.departure.coordinates.present
    /\ airports.arrival.set /\ airports.arrival.coordinates.present

\* degrees to radians: (x * Math.PI) / 180
Radians(x) == Div(Mul(FieldNumber(x), MathPI), N(180, 0))

\* R * c of the haversine formula, with R = 3440.065
Haversine(lat1, lon1, lat2, lon2) ==
    CHOOSE r \in
        {Mul(N(3440065, 0 - 3),
             Mul(N(2, 0),
                 MathAsin(MathSqrt(
                     Add(Mul(sdlat, sdlat),
                         Mul(Mul(MathCos(lat1), MathCos(lat2)),
                             Mul(sdlon, sdlon))))))) :
            sdlat \in {MathSin(Div(Sub(lat2, lat1), N(2, 0)))},
            sdlon \in {MathSin(Div(Sub(lon2, lon1), N(2, 0)))}} : TRUE

\* The great circle distance between two coordinates
GreatCircle(from, to) ==
    CHOOSE r \in
        {Haversine(lat1, lon1, lat2, lon2) :
            lat1 \in {Radians(from.lat)}, lon1 \in {Radians(from.lon)},
            lat2 \in {Radians(to.lat)}, lon2 \in {Radians(to.lon)}} : TRUE

\* Math.round(x * 10) / 10
RoundTenth(x) == Div(MathRound(Mul(x, N(10, 0))), N(10, 0))

\* Math.round(hours * 60)
RoundMinutes(hours) == MathRound(Mul(hours, N(60, 0)))

\* A climb or descent phase: its time in hours and its distance
Phase(altitude, speed, rate, airport, speedUnit, rateUnit) ==
    CHOOSE r \in
        {[timeHours |-> timeHours,
          distance |->
              Mul(convertSpeed(ToNumber(OrZero(speed)), speedUnit, "kt"),
                  timeHours)] :
            timeHours \in
                {Div(Sub(ToNumber(OrZero(altitude)), ElevationOrZero(airport)),
                     Mul(convertRate(ToNumber(OrZero(rate)), rateUnit, "ftmin"),
                         N(60, 0)))}} : TRUE

\* The cruise phase with a negative cruise distance raised to 0
CruiseClamped(climb, descent, totalDistance, cruiseSpeedKt) ==
    [tocDistance |-> climb.distance, todDistance |-> descent.distance,
     totalDistance |-> totalDistance, climbTimeHours |-> climb.timeHours,
     cruiseTimeHours |->
         Div(IF Less(totalDistance, Add(climb.distance, descent.distance))
             THEN Zero
             ELSE Sub(totalDistance, Add(climb.distance, descent.distance)),
             cruiseSpeedKt),
     descentTimeHours |-> descent.timeHours]

\* The cruise phase, from the total distance
Cruise(climb, descent, totalDistance, cruiseSpeedKt) ==
    [tocDistance |-> climb.distance, todDistance |-> descent.distance,
     totalDistance |-> totalDistance, climbTimeHours |-> climb.timeHours,
     cruiseTimeHours |->
         Div(Sub(totalDistance, Add(climb.distance, descent.distance)),
             cruiseSpeedKt),
     descentTimeHours |-> descent.timeHours]

\* The total distance: great circle if both coordinates are there, else
\* tocDistance + todDistance + 100
Profile(climb, descent, cruiseSpeedKt, airports) ==
    CHOOSE r \in
        {Cruise(climb, descent, totalDistance, cruiseSpeedKt) :
            totalDistance \in
                {IF BothCoordinates(airports)
                 THEN GreatCircle(airports.departure.coordinates,
                                  airports.arrival.coordinates)
                 ELSE Add(Add(climb.distance, descent.distance), N(100, 0))}} : TRUE

\* The values calculateResults computes before rounding.
Unrounded(inputs, speedUnit, rateUnit, airports) ==
    CHOOSE r \in
        {Profile(climb, descent, cruiseSpeedKt, airports) :
            climb \in {Phase(inputs.cruiseAltitude, inputs.climbSpeed,
                             inputs.climbRate, airports.departure,
                             speedUnit, rateUnit)},
            descent \in {Phase(inputs.cruiseAltitude, inputs.descentSpeed,
                               inputs.descentRate, airports.arrival,
                               speedUnit, rateUnit)},
            cruiseSpeedKt \in {convertSpeed(ToNumber(OrZero(inputs.cruiseSpeed)),
                                            speedUnit, "kt")}} : TRUE

\* The returned record with the total time summed from the rounded minutes
RoundedSummedMinutes(u) ==
    [tocDistance |-> RoundTenth(u.tocDistance),
     todDistance |-> RoundTenth(u.todDistance),
     totalDistance |-> RoundTenth(u.totalDistance),
     climbTime |-> RoundMinutes(u.climbTimeHours),
     cruiseTime |-> RoundMinutes(u.cruiseTimeHours),
     descentTime |-> RoundMinutes(u.descentTimeHours),
     totalTime |-> Add(Add(RoundMinutes(u.climbTimeHours),
                           RoundMinutes(u.cruiseTimeHours)),
                       RoundMinutes(u.descentTimeHours))]

\* The returned record with the total distance rounded to a whole mile
RoundedWholeMile(u) ==
    [tocDistance |-> RoundTenth(u.tocDistance),
     todDistance |-> RoundTenth(u.todDistance),
     totalDistance |-> MathRound(u.totalDistance),
     climbTime |-> RoundMinutes(u.climbTimeHours),
     cruiseTime |-> RoundMinutes(u.cruiseTimeHours),
     descentTime |-> RoundMinutes(u.descentTimeHours),
     totalTime |-> RoundMinutes(Add(Add(u.climbTimeHours, u.cruiseTimeHours),
                                    u.descentTimeHours))]

\* The record calculateResults returns
Rounded(u) ==
    [tocDistance |-> RoundTenth(u.tocDistance),
     todDistance |-> RoundTenth(u.todDistance),
     totalDistance |-> RoundTenth(u.totalDistance),
     climbTime |-> RoundMinutes(u.climbTimeHours),
     cruiseTime |-> RoundMinutes(u.cruiseTimeHours),
     descentTime |-> RoundMinutes(u.descentTimeHours),
     totalTime |-> RoundMinutes(Add(Add(u.climbTimeHours, u.cruiseTimeHours),
                                    u.descentTimeHours))]

calculateResults(inputs, speedUnit, rateUnit, airports) ==
    CHOOSE r \in
        {Rounded(u) : u \in {Unrounded(inputs, speedUnit, rateUnit, airports)}} : TRUE

\* A result value as the page shows it: {isNaN(x) || !isFinite(x) ? 0 : x}
Shown(x) == IF IsNaN(x) \/ ~IsFinite(x) THEN Zero ELSE x

\* The total time as the page shows it: {isNaN(x) ? 0 : x}
ShownTotalTime(x) == IF IsNaN(x) THEN Zero ELSE x

\* The seven values of the results section.
Rendered(results) ==
    [tocDistance |-> Shown(results.tocDistance),
     climbTime |-> Shown(results.climbTime),
     cruiseTime |-> Shown(results.cruiseTime),
     todDistance |-> Shown(results.todDistance),
     descentTime |-> Shown(results.descentTime),
     totalDistance |-> Shown(results.totalDistance),
     totalTime |-> ShownTotalTime(results.totalTime)]

(***************************************************************************)
(* The form controller (App)                                               *)
(***************************************************************************)
VARIABLES
    inputs,     \* the form fields
    speedUnit,  \* the selected speed unit
    rateUnit,   \* the selected rate unit
    error,      \* the message shown under each identifier field
    airports,   \* the airports stored by the searches
    outcome,    \* how the handler that ran last ended: a search's result, or
                \* "cleared" for an edit that removed the stored airports
    conv,       \* a unit conversion being applied
    dir,        \* an airport lookup being applied
    calc        \* a calculation being applied

vars == <<inputs, speedUnit, rateUnit, error, airports, outcome, conv, dir, calc>>

appVars == <<inputs, speedUnit, rateUnit, error, airports, outcome>>

\* The airport collection loaded from waypoints.json: two records of
\* data/brazilian-airports.ts and a record that carries no position.
SBGR ==
    AirportRecord(<<"S", "B", "G", "R">>, "Guarulhos", N(2459, 0),
                  N(0 - 23435556, 0 - 6), N(0 - 46473056, 0 - 6))

SBGL ==
    AirportRecord(<<"S", "B", "G", "L">>, "Galeao", N(28, 0),
                  N(0 - 22808889, 0 - 6), N(0 - 43243611, 0 - 6))

SBRL ==
    AirportRecord(<<"S", "B", "R", "L">>, "Airstrip", N(1500, 0),
                  Undefined, Undefined)

airportsData == <<SBGR, SBGL, SBRL>>

NumericFields ==
    {"cruiseAltitude", "climbSpeed", "cruiseSpeed", "descentSpeed",
     "climbRate", "descentRate"}

IcaoFields == {"departureIcao", "arrivalIcao"}

Slots == {"departure", "arrival"}

FieldOf(type) == IF type = "departure" THEN "departureIcao" ELSE "arrivalIcao"

\* The texts typed into a field.
Typed(name) ==
    CASE name = "cruiseAltitude" -> {<<"3", "5", "0", "0", "0">>}
      [] name = "climbSpeed" -> {<<"2", "5", "0">>}
      [] name = "cruiseSpeed" -> {<<"4", "5", "0">>}
      [] name = "descentSpeed" -> {<<"2", "8", "0">>}
      [] name = "climbRate" -> {<<"2", "0", "0", "0">>}
      [] name = "descentRate" -> {<<"1", "5", "0", "0">>}
      [] OTHER -> {<<>>, <<"s", "b", "g", "r">>, <<"S", "B", "G", "X">>,
                   <<"1", "2", "3", "4">>}

\* useState of inputs
InitialInputs ==
    [cruiseAltitude |-> Null, climbSpeed |-> Null,
     cruiseSpeed |-> Null, descentSpeed |-> Null,
     climbRate |-> Null, descentRate |-> Null,
     departureIcao |-> StrVal(<<>>), arrivalIcao |-> StrVal(<<>>)]

NoAirports == [departure |-> NoAirport, arrival |-> NoAirport]

AppInit ==
    /\ inputs = InitialInputs
    /\ speedUnit = "kt"
    /\ rateUnit = "ftmin"
    /\ error = [departure |-> "none", arrival |-> "none"]
    /\ airports = NoAirports
    /\ outcome = "none"

\* const results = calculateResults()
results == calculateResults(inputs, speedUnit, rateUnit, airports)

\* Number(value) || value
NumberOrValue(value) ==
    LET n == NumVal(NumberOfString(value))
    IN  IF Truthy(n) THEN n ELSE StrVal(value)

\* The effect clearing the airports only when both fields are empty
ClearAirportsWhenBothEmpty(old, new, stored) ==
    IF /\ <<old.arrivalIcao, old.departureIcao>> # <<new.arrivalIcao, new.departureIcao>>
       /\ (new.departureIcao = StrVal(<<>>) /\ new.arrivalIcao = StrVal(<<>>))
    THEN NoAirports
    ELSE stored

\* The effect on [inputs.arrivalIcao, inputs.departureIcao]: the airports
\* left by the render that follows a change of the fields from old to new.
ClearAirportsEffect(old, new, stored) ==
    IF /\ <<old.arrivalIcao, old.departureIcao>> # <<new.arrivalIcao, new.departureIcao>>
       /\ (new.departureIcao = StrVal(<<>>) \/ new.arrivalIcao = StrVal(<<>>))
    THEN NoAirports
    ELSE stored

handleInputChange(name, value) ==
    LET next == [inputs EXCEPT ![name] = NumberOrValue(value)]
    IN  /\ inputs' = next
        /\ airports' = ClearAirportsEffect(inputs, next, airports)
        /\ outcome' = IF airports # NoAirports /\ airports' = NoAirports
                      THEN "cleared" ELSE "none"
        /\ UNCHANGED <<speedUnit, rateUnit, error>>

setSpeedUnit(u) ==
    /\ speedUnit' = u
    /\ outcome' = "none"
    /\ UNCHANGED <<inputs, rateUnit, error, airports>>

setRateUnit(u) ==
    /\ rateUnit' = u
    /\ outcome' = "none"
    /\ UNCHANGED <<inputs, speedUnit, error, airports>>

\* The Airport that handleAirportSearch builds from a lookup result
AirportOf(icao, airportData) ==
    [set |-> TRUE,
     icao |-> toUpperCase(icao),
     elevation |-> airportData.feet,
     name |-> airportData.name,
     coordinates |-> airportData.coordinates]

\* handleAirportSearch(inputs.<field>, type), as the search buttons call it
handleAirportSearch(type) ==
    LET icao == inputs[FieldOf(type)]
    IN  /\ UNCHANGED <<inputs, speedUnit, rateUnit>>
        /\ IF ~Truthy(icao)
           THEN /\ error' = [error EXCEPT ![type] = "empty"]
                /\ outcome' = "emptyError"
                /\ UNCHANGED airports
           ELSE IF icao.t # "str"
           THEN \* icao.toUpperCase is not a function: TypeError
                /\ error' = [error EXCEPT ![type] = "none"]
                /\ outcome' = "exception"
                /\ UNCHANGED airports
           ELSE LET airportData == getAirportData(airportsData, toUpperCase(icao.s))
                IN  IF ~airportData.found
                    THEN /\ error' = [error EXCEPT ![type] = "notFound"]
                         /\ outcome' = "notFound"
                         /\ UNCHANGED airports
                    ELSE /\ error' = [error EXCEPT ![type] = "none"]
                         /\ outcome' = "stored"
                         /\ airports' = [airports EXCEPT
                                            ![type] = AirportOf(icao.s, airportData)]

ConvIdle == [pc |-> "idle"]

DirIdle == [pc |-> "idle"]

CalcIdle == [pc |-> "idle"]

Init == AppInit /\ conv = ConvIdle /\ dir = DirIdle /\ calc = CalcIdle

Next ==
    \/ \E name \in NumericFields \cup IcaoFields : \E value \in Typed(name) :
          handleInputChange(name, value) /\ UNCHANGED <<conv, dir, calc>>
    \/ \E u \in SpeedUnit : setSpeedUnit(u) /\ UNCHANGED <<conv, dir, calc>>
    \/ \E u \in RateUnit : setRateUnit(u) /\ UNCHANGED <<conv, dir, calc>>
    \/ \E type \in Slots : handleAirportSearch(type) /\ UNCHANGED <<conv, dir, calc>>

Spec == Init /\ [][Next]_vars

(***************************************************************************)
(* Unit conversion applied to bounded inputs                               *)
(***************************************************************************)
MaxValueStep == 4

ConvValues ==
    {N(i * 250, 0) : i \in 0..MaxValueStep}
        \cup {N(1, 308), N(0 - 1, 308), N(17976931, 301), N(1, 0 - 300)}

ConvInit ==
    conv \in
        {[pc |-> "ready", family |-> "speed", value |-> v, from |-> f,
          to |-> t, result |-> Zero, back |-> Zero] :
            v \in ConvValues, f \in SpeedUnit, t \in SpeedUnit}
        \cup
        {[pc |-> "ready", family |-> "rate", value |-> v, from |-> f,
          to |-> t, result |-> Zero, back |-> Zero] :
            v \in ConvValues, f \in RateUnit, t \in RateUnit}

ApplyConvertSpeed ==
    /\ conv.pc = "ready" /\ conv.family = "speed"
    /\ conv' = [conv EXCEPT !.pc = "converted",
                            !.result = convertSpeed(conv.value, conv.from, conv.to)]

ApplyConvertSpeedBack ==
    /\ conv.pc = "converted" /\ conv.family = "speed"
    /\ conv' = [conv EXCEPT !.pc = "back",
                            !.back = convertSpeed(conv.result, conv.to, conv.from)]

ApplyConvertRate ==
    /\ conv.pc = "ready" /\ conv.family = "rate"
    /\ conv' = [conv EXCEPT !.pc = "converted",
                            !.result = convertRate(conv.value, conv.from, conv.to)]

ApplyConvertRateBack ==
    /\ conv.pc = "converted" /\ conv.family = "rate"
    /\ conv' = [conv EXCEPT !.pc = "back",
                            !.back = convertRate(conv.result, conv.to, conv.from)]

InitConv == AppInit /\ ConvInit /\ dir = DirIdle /\ calc = CalcIdle

NextConv ==
    \/ ApplyConvertSpeed /\ UNCHANGED <<appVars, dir, calc>>
    \/ ApplyConvertSpeedBack /\ UNCHANGED <<appVars, dir, calc>>
    \/ ApplyConvertRate /\ UNCHANGED <<appVars, dir, calc>>
    \/ ApplyConvertRateBack /\ UNCHANGED <<appVars, dir, calc>>

SpecConv == InitConv /\ [][NextConv]_vars

(***************************************************************************)
(* Airport lookup applied to bounded collections                           *)
(***************************************************************************)
MaxRecords == 2

DirRecords ==
    {AirportRecord(<<"S", "B">>, "first", N(10, 0), N(1, 0), N(2, 0)),
     AirportRecord(<<"s", "b">>, "second", N(20, 0), N(3, 0), N(4, 0)),
     AirportRecord(<<"S", "g">>, "third", N(30, 0), Undefined, Undefined)}

Collections == UNION {[1..n -> DirRecords] : n \in 0..MaxRecords}

Identifiers == {<<a, b>> : a \in {"s", "S"}, b \in {"b", "B", "g", "G", "x"}}

DirInit ==
    dir \in {[pc |-> "ready", data |-> d, icao |-> id,
              indexed |-> NullData, scanned |-> NullData] :
                d \in Collections, id \in Identifiers}

LookupIndexed ==
    /\ dir.pc = "ready"
    /\ dir' = [dir EXCEPT !.pc = "indexed",
                          !.indexed = getAirportData(dir.data, dir.icao)]

LookupScanned ==
    /\ dir.pc = "indexed"
    /\ dir' = [dir EXCEPT !.pc = "done",
                          !.scanned = getAirportDataScan(dir.data, dir.icao)]

InitDir == AppInit /\ conv = ConvIdle /\ DirInit /\ calc = CalcIdle

NextDir ==
    \/ LookupIndexed /\ UNCHANGED <<appVars, conv, calc>>
    \/ LookupScanned /\ UNCHANGED <<appVars, conv, calc>>

SpecDir == InitDir /\ [][NextDir]_vars

(***************************************************************************)
(* calculateResults applied to bounded inputs                              *)
(***************************************************************************)
MaxLevel == 3

\* The airports a search can store, and the absent one.
StoredAirports ==
    {NoAirport} \cup
        {AirportOf(airportsData[i].icao,
                   getAirportData(airportsData, airportsData[i].icao)) :
            i \in 1..Len(airportsData)}

\* The cruise altitudes typed: flight levels 11000 ft apart and 36500 ft
CruiseAltitudes ==
    {N(level * 11000, 0) : level \in 1..MaxLevel} \cup {N(36500, 0)}

CalcInputs ==
    {[cruiseAltitude |-> NumVal(altitude),
      climbSpeed |-> NumVal(N(250, 0)),
      cruiseSpeed |-> cs,
      descentSpeed |-> NumVal(N(280, 0)),
      climbRate |-> cr,
      descentRate |-> NumVal(N(1500, 0)),
      departureIcao |-> StrVal(<<>>), arrivalIcao |-> StrVal(<<>>)] :
        altitude \in CruiseAltitudes,
        cs \in {Null, NumVal(N(450, 0))},
        cr \in {Null, NumVal(N(2000, 0))}}

CalcInit ==
    calc \in {[pc |-> "ready", inputs |-> i, speedUnit |-> su, rateUnit |-> ru,
               airports |-> [departure |-> d, arrival |-> a],
               result |-> calculateResults(InitialInputs, "kt", "ftmin",
                                           NoAirports)] :
                i \in CalcInputs, su \in SpeedUnit, ru \in RateUnit,
                d \in StoredAirports, a \in StoredAirports}

Calculate ==
    /\ calc.pc = "ready"
    /\ calc' = [calc EXCEPT !.pc = "done",
                            !.result = calculateResults(calc.inputs, calc.speedUnit,
                                                        calc.rateUnit, calc.airports)]

InitCalc == AppInit /\ conv = ConvIdle /\ dir = DirIdle /\ CalcInit

NextCalc == Calculate /\ UNCHANGED <<appVars, conv, dir>>

SpecCalc == InitCalc /\ [][NextCalc]_vars

(***************************************************************************)
(* Properties                                                              *)
(***************************************************************************)
ResultFields ==
    {"tocDistance", "climbTime", "cruiseTime", "todDistance", "descentTime",
     "totalDistance", "totalTime"}

\* C1: each of the seven values the page shows is a finite number, 0 standing
\* for every computed value that is not finite.
EveryShownValueFinite ==
    \A f \in ResultFields :
        /\ IsFinite(Rendered(results)[f])
        /\ ~IsFinite(results[f]) => Rendered(results)[f] = Zero

\* C2: when the most recent search of a slot ended in not-found, the
\* calculation uses elevation 0 and no position for that slot.
NotFoundSlotUsesDefaults ==
    \A type \in Slots :
        error[type] = "notFound" =>
            /\ ElevationOrZero(airports[type]) = Zero
            /\ ~(airports[type].set /\ airports[type].coordinates.present)

\* C3: an airport search ends with the empty-identifier error, the not-found
\* error or a stored airport, and never with an exception.
SearchNeverRaises ==
    outcome \in {"none", "cleared", "emptyError", "notFound", "stored"}

\* An airport whose position is known
HasPosition(airport) ==
    /\ airport.set /\ airport.coordinates.present
    /\ airport.coordinates.lat # Undefined /\ airport.coordinates.lon # Undefined

AllFinite(result) == \A f \in ResultFields : IsFinite(result[f])

AbsNum(x) == IF IsNeg(x) THEN Neg(x) ELSE x

\* x <= y
AtMost(x, y) == x = y \/ Less(x, y)

\* A calculation done without position data, all its results finite
CalcWithoutPositions ==
    /\ calc.pc = "done"
    /\ ~HasPosition(calc.airports.departure)
    /\ ~HasPosition(calc.airports.arrival)
    /\ AllFinite(calc.result)

\* The returned tocDistance + todDistance + 100
ReturnedSum(result) == Add(Add(result.tocDistance, result.todDistance), N(100, 0))

\* C4 as stated: without position data the returned totalDistance equals the
\* returned tocDistance + todDistance + 100 exactly.
RoundedTotalIsExactSum ==
    CalcWithoutPositions => calc.result.totalDistance = ReturnedSum(calc.result)

\* C4 as amended: without position data the returned totalDistance is the
\* unrounded tocDistance + todDistance + 100 rounded to one decimal place,
\* and differs from the returned tocDistance + todDistance + 100 by less
\* than 0.15.
RoundedTotalNearSum ==
    CalcWithoutPositions =>
        LET u == Unrounded(calc.inputs, calc.speedUnit, calc.rateUnit, calc.airports)
        IN  /\ calc.result.totalDistance =
                   RoundTenth(Add(Add(u.tocDistance, u.todDistance), N(100, 0)))
            /\ Less(AbsNum(Sub(calc.result.totalDistance, ReturnedSum(calc.result))),
                    N(15, 0 - 2))

\* A calculation without position data whose returned total is not the
\* returned sum.
RoundedTotalOffSum ==
    CalcWithoutPositions /\ calc.result.totalDistance # ReturnedSum(calc.result)

\* C5: the total distance is the great circle distance if and only if both
\* positions are known, and tocDistance + todDistance + 100 in every other
\* case.
TotalIsGreatCircleIffPositions ==
    calc.pc = "done" =>
        LET u == Unrounded(calc.inputs, calc.speedUnit, calc.rateUnit, calc.airports)
        IN  calc.result.totalDistance =
                IF HasPosition(calc.airports.departure)
                   /\ HasPosition(calc.airports.arrival)
                THEN RoundTenth(GreatCircle(calc.airports.departure.coordinates,
                                            calc.airports.arrival.coordinates))
                ELSE RoundTenth(Add(Add(u.tocDistance, u.todDistance), N(100, 0)))

\* C6: a conversion from a unit to the same unit returns the value unchanged.
SameUnitIsIdentity ==
    (conv.pc \in {"converted", "back"} /\ conv.from = conv.to) =>
        conv.result = conv.value

\* value * factor of convertRate, without its guard
RateProduct(value, from, to) ==
    IF from = to THEN value
    ELSE IF from = "ftmin" /\ to = "ms" THEN Mul(value, N(508, 0 - 5))
    ELSE Mul(value, N(19685, 0 - 2))

\* The product a conversion computes before its guard
RawProduct(family, value, from, to) ==
    IF family = "speed" THEN convertSpeedUnguarded(value, from, to)
    ELSE RateProduct(value, from, to)

\* The rounding four multiplications of eight digits can leave: 4e-7 of v
WithinRounding(v, w) ==
    AtMost(AbsNum(Sub(w, v)), Mul(AbsNum(v), N(4, 0 - 7)))

\* C7: converting a value to another unit and back reproduces it to within
\* rounding, when no intermediate result overflows.
RoundTripWithinRounding ==
    (/\ conv.pc = "back"
     /\ IsFinite(RawProduct(conv.family, conv.value, conv.from, conv.to))
     /\ IsFinite(RawProduct(conv.family, conv.result, conv.to, conv.from)))
        => WithinRounding(conv.value, conv.back)

\* C8: a conversion of a finite value returns a finite number, and returns 0
\* when its product is not finite.
ConversionIsFinite ==
    /\ conv.pc \in {"converted", "back"} =>
          /\ IsFinite(conv.result)
          /\ ~IsFinite(RawProduct(conv.family, conv.value, conv.from, conv.to))
                => conv.result = Zero
    /\ conv.pc = "back" =>
          /\ IsFinite(conv.back)
          /\ ~IsFinite(RawProduct(conv.family, conv.result, conv.to, conv.from))
                => conv.back = Zero

\* A conversion whose product overflowed and that returned 0
ConversionOverflowed ==
    /\ conv.pc = "converted"
    /\ ~IsFinite(RawProduct(conv.family, conv.value, conv.from, conv.to))
    /\ conv.result = Zero

\* String.prototype.toLowerCase on one character
LowerChar(c) ==
    CASE c = "S" -> "s" [] c = "B" -> "b" [] c = "G" -> "g"
      [] c = "R" -> "r" [] c = "L" -> "l" [] c = "X" -> "x"
      [] OTHER -> c

\* The strings that differ from str in the case of letters only
Recasings(str) ==
    {t \in [1..Len(str) -> {UpperChar(str[i]) : i \in 1..Len(str)}
                              \cup {LowerChar(str[i]) : i \in 1..Len(str)}] :
        \A i \in 1..Len(str) : t[i] \in {UpperChar(str[i]), LowerChar(str[i])}}

\* C9: a lookup gives the same outcome for every re-casing of the identifier,
\* in both directories.
LookupIsCaseInsensitive ==
    dir.pc = "done" =>
        \A other \in Recasings(dir.icao) :
            /\ getAirportData(dir.data, other) = dir.indexed
            /\ getAirportDataScan(dir.data, other) = dir.scanned

\* A lookup that found a record under an identifier written in another case
FoundInAnotherCase ==
    /\ dir.pc = "done"
    /\ dir.indexed.found /\ dir.scanned.found
    /\ \A i \in 1..Len(dir.data) : dir.data[i].icao # dir.icao

\* The view of the first record of data, in collection order, whose code
\* matches icao; NullData if there is none.
FirstMatch(data, icao) ==
    LET hits == {i \in 1..Len(data) : toUpperCase(data[i].icao) = toUpperCase(icao)}
    IN  IF hits = {} THEN NullData
        ELSE AirportData(data[CHOOSE i \in hits : \A j \in hits : i <= j])

\* C10: the indexed and the scanning directory return the same result, the
\* first matching record in collection order.
DirectoriesAgreeOnFirstMatch ==
    dir.pc = "done" =>
        /\ dir.indexed = dir.scanned
        /\ dir.indexed = FirstMatch(dir.data, dir.icao)

\* The cruise speed in knots a calculation uses
CruiseSpeedKt ==
    convertSpeed(ToNumber(OrZero(calc.inputs.cruiseSpeed)), calc.speedUnit, "kt")

\* A calculation done with a positive cruise speed whose climb plus descent
\* distance exceeds the total distance
CalcOvershoots ==
    /\ calc.pc = "done"
    /\ Less(Zero, CruiseSpeedKt)
    /\ LET u == Unrounded(calc.inputs, calc.speedUnit, calc.rateUnit, calc.airports)
       IN  Less(u.totalDistance, Add(u.tocDistance, u.todDistance))

\* (total - (toc + tod)) / cruise speed, in hours, with no clamp
OvershootHours(u) ==
    Div(Sub(u.totalDistance, Add(u.tocDistance, u.todDistance)), CruiseSpeedKt)

\* C11 as stated: when climb plus descent distance exceeds the total distance
\* at a positive cruise speed, the returned cruiseTime is negative and the
\* returned totalTime is the rounded sum that includes the negative time.
OvershootCruiseTimeNegative ==
    CalcOvershoots =>
        LET u == Unrounded(calc.inputs, calc.speedUnit, calc.rateUnit, calc.airports)
        IN  /\ Less(calc.result.cruiseTime, Zero)
            /\ calc.result.totalTime =
                   RoundMinutes(Add(Add(u.climbTimeHours, OvershootHours(u)),
                                    u.descentTimeHours))

\* C11 as amended: in that case the returned cruiseTime is the negative
\* unrounded cruise time rounded to the nearest minute, with no clamp: never
\* positive, negative when the unrounded time is below minus half a minute;
\* the returned totalTime is the rounded sum that includes the negative time
\* and, when finite, is at most the rounded climb plus descent time.
OvershootCruiseTimeUnclamped ==
    CalcOvershoots =>
        LET u == Unrounded(calc.inputs, calc.speedUnit, calc.rateUnit, calc.airports)
        IN  /\ Less(OvershootHours(u), Zero)
            /\ calc.result.cruiseTime = RoundMinutes(OvershootHours(u))
            /\ AtMost(calc.result.cruiseTime, Zero)
            /\ Less(Mul(OvershootHours(u), N(60, 0)), N(0 - 5, 0 - 1))
                   => Less(calc.result.cruiseTime, Zero)
            /\ calc.result.totalTime =
                   RoundMinutes(Add(Add(u.climbTimeHours, OvershootHours(u)),
                                    u.descentTimeHours))
            /\ IsFinite(calc.result.totalTime) =>
                   AtMost(calc.result.totalTime,
                          RoundMinutes(Add(u.climbTimeHours, u.descentTimeHours)))

\* An overshooting calculation that returned a negative cruise time and a
\* total time below the rounded climb plus descent time
OvershootReturnedNegative ==
    /\ CalcOvershoots
    /\ Less(calc.result.cruiseTime, Zero)
    /\ IsFinite(calc.result.totalTime)
    /\ LET u == Unrounded(calc.inputs, calc.speedUnit, calc.rateUnit, calc.airports)
       IN  Less(calc.result.totalTime,
                RoundMinutes(Add(u.climbTimeHours, u.descentTimeHours)))

\* x is a whole number of units of 10^(-places)
HasDecimals(x, places) == IsFinite(x) /\ (IsZero(x) \/ x.e >= 0 - places)

\* r is x rounded to the given number of decimal places: a multiple of
\* 10^(-places) at most half a unit away from x
IsRounding(r, x, places) ==
    /\ HasDecimals(r, places)
    /\ AtMost(AbsNum(Sub(r, x)), N(5, 0 - (places + 1)))

\* hours * 60
Minutes(hours) == Mul(hours, N(60, 0))

\* C12: in a returned result with finite values, each distance is the
\* unrounded distance rounded to one decimal place, each phase time the
\* unrounded phase time rounded to the nearest whole minute, and totalTime the
\* rounding of the sum of the three unrounded phase times.
ResultIsRounding ==
    (calc.pc = "done" /\ AllFinite(calc.result)) =>
        LET u == Unrounded(calc.inputs, calc.speedUnit, calc.rateUnit, calc.airports)
            r == calc.result
        IN  /\ IsRounding(r.tocDistance, u.tocDistance, 1)
            /\ IsRounding(r.todDistance, u.todDistance, 1)
            /\ IsRounding(r.totalDistance, u.totalDistance, 1)
            /\ IsRounding(r.climbTime, Minutes(u.climbTimeHours), 0)
            /\ IsRounding(r.cruiseTime, Minutes(u.cruiseTimeHours), 0)
            /\ IsRounding(r.descentTime, Minutes(u.descentTimeHours), 0)
            /\ IsRounding(r.totalTime,
                          Minutes(Add(Add(u.climbTimeHours, u.cruiseTimeHours),
                                      u.descentTimeHours)), 0)

\* A finite result whose totalTime is not the sum of its three phase minutes
TotalTimeOffPhaseSum ==
    /\ calc.pc = "done"
    /\ AllFinite(calc.result)
    /\ calc.result.totalTime #
           Add(Add(calc.result.climbTime, calc.result.cruiseTime),
               calc.result.descentTime)

\* One of the two identifier fields is empty
AnIdentifierEmpty(fields) ==
    fields.departureIcao = StrVal(<<>>) \/ fields.arrivalIcao = StrVal(<<>>)

\* No airport is stored: the calculation uses elevation 0 for both slots and
\* the padded fallback distance
NothingStored(stored) ==
    /\ stored = NoAirports
    /\ \A type \in Slots : ElevationOrZero(stored[type]) = Zero
    /\ ~BothCoordinates(stored)

\* C13 as stated: whenever the departure or the arrival identifier field is
\* empty, no airport is stored for either slot.
EmptyFieldMeansNothingStored ==
    AnIdentifierEmpty(inputs) => NothingStored(airports)

\* C13 as amended: every edit that changes an identifier field and leaves the
\* departure or the arrival field empty leaves no airport stored for either
\* slot (a later successful search stores its airport again, also while the
\* other field is empty).
EmptyingEditClearsAirports ==
    [][(/\ <<inputs.arrivalIcao, inputs.departureIcao>>
              # <<inputs'.arrivalIcao, inputs'.departureIcao>>
        /\ AnIdentifierEmpty(inputs'))
           => NothingStored(airports')]_vars

\* An edit has just emptied an identifier field and removed stored airports
EditClearedStoredAirports ==
    /\ outcome = "cleared"
    /\ AnIdentifierEmpty(inputs)
    /\ NothingStored(airports)

=============================================================================
